---- MODULE Spec2Model ----
(***************************************************************************)
(* Model of the natural-language-to-SQL pipeline of query-assistant        *)
(* (src/src/nlp.py): QueryExample.from_gist, the provider selection of     *)
(* NLPToSQL._initialize_provider, NLPToSQL.load_examples,                  *)
(* get_table_schema, calculate_similarity, get_relevant_examples and       *)
(* generate_sql.                                                           *)
(*                                                                         *)
(* A Python str is a sequence of one-character strings.  Python's None and *)
(* a raised exception are one-element sequences holding a token that is    *)
(* no character, so that they compare with every str and equal none.       *)
(***************************************************************************)
EXTENDS Integers, Sequences, FiniteSets, TLC

VARIABLES
    pc,                 \* "new" | "idle" | "generating": position of the caller in the pipeline
    LLM_PROVIDER,       \* Config.LLM_PROVIDER
    OPENROUTER_API_KEY, \* Config.OPENROUTER_API_KEY
    llm_provider,       \* self.llm_provider: "unbound" | "ollama" | "openrouter"
    examples,           \* self.examples
    natural_query,      \* generate_sql's argument
    max_examples,       \* get_relevant_examples' limit
    relevant_examples,  \* generate_sql's local (get_relevant_examples' result)
    schema,             \* generate_sql's local (get_table_schema's result)
    calls,              \* the external calls of the translate call in progress or last ended
    content,            \* what the last read of a corpus file gave (text or error)
    response,           \* what the last provider.generate call gave
    sql,                \* the text generate_sql last handed to sqlparse.format
    result,             \* the value the last operation returned (or Raised)
    lastOp,             \* the last operation that ended
    prevExamples,       \* self.examples when the last operation began
    shape,              \* the parts the input text of a pure-function run was built from
    stop_animation,     \* CLI._stop_animation
    threads,            \* the animation threads started so far: "running" | "terminated"
    animation_thread,   \* process_natural_query's local: the thread it started
    interrupted         \* whether a KeyboardInterrupt has left process_natural_query

vars == << pc, LLM_PROVIDER, OPENROUTER_API_KEY, llm_provider, examples,
           natural_query, max_examples, relevant_examples, schema, calls,
           content, response, sql, result, lastOp, prevExamples, shape,
           stop_animation, threads, animation_thread, interrupted >>

\* the state of the CLI around the pipeline
cliVars == << stop_animation, threads, animation_thread, interrupted >>

\* CLI.__init__, line 28: no query processed yet
CliIdle ==
    /\ stop_animation = FALSE
    /\ threads = << >>
    /\ animation_thread = 0
    /\ interrupted = FALSE

(***************************************************************************)
(* Values                                                                  *)
(***************************************************************************)
None == << "<None>" >>
Raised == << "<raised>" >>
ReadError == << "<OSError>" >>
PyTrue == << "<True>" >>
PyFalse == << "<False>" >>
NL == "\n"

\* Python truthiness of an Optional[str] or a list: None, "" and [] are falsy.
Truthy(v) == v # None /\ v # << >>

PyBool(b) == IF b THEN PyTrue ELSE PyFalse

(***************************************************************************)
(* str methods                                                             *)
(***************************************************************************)
\* str.isspace on one character
IsSpace(c) == c \in {" ", NL, "\t"}

\* str.lower on one character (the letters the model's texts use)
LowerChar(c) ==
    CASE c = "A" -> "a" [] c = "B" -> "b" [] c = "C" -> "c" [] c = "E" -> "e" [] c = "L" -> "l"
      [] c = "N" -> "n" [] c = "O" -> "o" [] c = "P" -> "p" [] c = "Q" -> "q"
      [] c = "R" -> "r" [] c = "S" -> "s" [] c = "T" -> "t" [] c = "U" -> "u"
      [] OTHER -> c

\* str.upper on one character
UpperChar(c) ==
    CASE c = "a" -> "A" [] c = "b" -> "B" [] c = "c" -> "C" [] c = "e" -> "E" [] c = "l" -> "L"
      [] c = "n" -> "N" [] c = "o" -> "O" [] c = "p" -> "P" [] c = "q" -> "Q"
      [] c = "r" -> "R" [] c = "s" -> "S" [] c = "t" -> "T" [] c = "u" -> "U"
      [] OTHER -> c

Lower(s) == [i \in 1..Len(s) |-> LowerChar(s[i])]

Upper(s) == [i \in 1..Len(s) |-> UpperChar(s[i])]

RECURSIVE LStripChars(_, _)
LStripChars(s, chars) ==
    IF s # << >> /\ Head(s) \in chars THEN LStripChars(Tail(s), chars) ELSE s

RECURSIVE RStripChars(_, _)
RStripChars(s, chars) ==
    IF s # << >> /\ s[Len(s)] \in chars
    THEN RStripChars(SubSeq(s, 1, Len(s) - 1), chars)
    ELSE s

\* s.strip(chars)
StripChars(s, chars) == RStripChars(LStripChars(s, chars), chars)

\* s.strip()
Strip(s) == StripChars(s, {" ", NL, "\t"})

\* s.replace(old, ""): leftmost non-overlapping occurrences removed, one pass
RECURSIVE Remove(_, _)
Remove(s, old) ==
    IF Len(s) < Len(old) THEN s
    ELSE IF SubSeq(s, 1, Len(old)) = old
         THEN Remove(SubSeq(s, Len(old) + 1, Len(s)), old)
         ELSE << Head(s) >> \o Remove(Tail(s), old)

\* the first index of character c in s, 0 when absent
RECURSIVE IndexOf(_, _, _)
IndexOf(s, c, i) ==
    IF i > Len(s) THEN 0 ELSE IF s[i] = c THEN i ELSE IndexOf(s, c, i + 1)

\* the longest prefix of s without whitespace
RECURSIVE WordPrefixLen(_, _)
WordPrefixLen(s, i) ==
    IF i > Len(s) \/ IsSpace(s[i]) THEN i - 1 ELSE WordPrefixLen(s, i + 1)

\* set(s.split()): the whitespace-delimited words of s, as a set
RECURSIVE WordSet(_)
WordSet(s) ==
    IF s = << >> THEN {}
    ELSE IF IsSpace(Head(s)) THEN WordSet(Tail(s))
    ELSE LET n == WordPrefixLen(s, 1)
         IN  {SubSeq(s, 1, n)} \cup WordSet(SubSeq(s, n + 1, Len(s)))

(***************************************************************************)
(* sqlparse.format(text, reindent=True, keyword_case="upper",              *)
(* indent_width=4), by its effect on the model's texts: every word that is *)
(* an SQL keyword is upper-cased, the rest is kept.                        *)
(***************************************************************************)
Keywords == { << "a", "s" >>, << "s", "q", "l" >> }

RECURSIVE SqlFormat(_)
SqlFormat(s) ==
    IF s = << >> THEN << >>
    ELSE IF IsSpace(Head(s)) THEN << Head(s) >> \o SqlFormat(Tail(s))
    ELSE LET n == WordPrefixLen(s, 1)
             w == SubSeq(s, 1, n)
         IN  (IF Lower(w) \in Keywords THEN Upper(w) ELSE w)
             \o SqlFormat(SubSeq(s, n + 1, Len(s)))

(***************************************************************************)
(* QueryExample                                                            *)
(***************************************************************************)
\* QueryExample.__init__
QueryExample(nq, sq) ==
    [natural_query |-> Strip(nq), sql_query |-> SqlFormat(Strip(sq))]

\* the separator pattern as \n\n, without the \s* between the newlines
SepEndNewlineOnly(s, j, last) ==
    IF j <= Len(s) /\ s[j] = NL THEN j ELSE 0

\* For s[i] = "\n": the index where a match of \n\s*\n that starts at i ends
\* (\s* is greedy and backtracks to the last newline of the whitespace run),
\* 0 when there is no match at i.
RECURSIVE SepEnd(_, _, _)
SepEnd(s, j, last) ==
    IF j > Len(s) \/ ~IsSpace(s[j]) THEN last
    ELSE SepEnd(s, j + 1, IF s[j] = NL THEN j ELSE last)

\* re.split(r"\n\s*\n", s), from position i on, the current piece starting at start
RECURSIVE ReSplitFrom(_, _, _)
ReSplitFrom(s, start, i) ==
    IF i > Len(s) THEN << SubSeq(s, start, Len(s)) >>
    ELSE IF s[i] = NL /\ SepEnd(s, i + 1, 0) # 0
         THEN LET e == SepEnd(s, i + 1, 0)
              IN  << SubSeq(s, start, i - 1) >> \o ReSplitFrom(s, e + 1, e + 1)
         ELSE ReSplitFrom(s, start, i + 1)

ReSplit(s) == ReSplitFrom(s, 1, 1)

\* The body of from_gist's loop: the examples one block contributes.
BlockExamples(block) ==
    IF Strip(block) = << >> THEN << >>
    ELSE LET nl == IndexOf(block, NL, 1)
         IN  IF nl = 0 THEN << >>           \* len(parts) != 2
             ELSE LET nq == Strip(StripChars(SubSeq(block, 1, nl - 1), {"-", " "}))
                      sq == Strip(SubSeq(block, nl + 1, Len(block)))
                  IN  IF nq = << >> \/ sq = << >> THEN << >>
                      ELSE << QueryExample(nq, sq) >>

RECURSIVE ConcatBlocks(_)
ConcatBlocks(blocks) ==
    IF blocks = << >> THEN << >>
    ELSE BlockExamples(Head(blocks)) \o ConcatBlocks(Tail(blocks))

\* QueryExample.from_gist
from_gist(text) == ConcatBlocks(ReSplit(text))

(***************************************************************************)
(* Providers                                                               *)
(***************************************************************************)
OPENROUTER == << "o", "p", "e", "n", "r", "o", "u", "t", "e", "r" >>

\* OpenRouterProvider.__init__: the provider, or the ValueError it raises
OpenRouterProvider(api_key) ==
    IF ~Truthy(api_key) THEN "ValueError" ELSE "openrouter"

\* OllamaProvider.__init__
OllamaProvider == "ollama"

\* _initialize_provider without the except clause for the ValueError
InitializeProviderFallsBackNever(provider_cfg, api_key) ==
    IF Lower(provider_cfg) = OPENROUTER THEN OpenRouterProvider(api_key)
    ELSE OllamaProvider

\* NLPToSQL._initialize_provider: the provider bound to self.llm_provider
initialize_provider(provider_cfg, api_key) ==
    IF Lower(provider_cfg) = OPENROUTER
    THEN IF OpenRouterProvider(api_key) = "ValueError"
         THEN OllamaProvider
         ELSE OpenRouterProvider(api_key)
    ELSE OllamaProvider

(***************************************************************************)
(* Schema                                                                  *)
(***************************************************************************)
RECURSIVE JoinComma(_)
JoinComma(cols) ==
    IF cols = << >> THEN << >>
    ELSE IF Len(cols) = 1 THEN << cols[1] >>
    ELSE << cols[1], ", " >> \o JoinComma(Tail(cols))

RECURSIVE TablesText(_)
TablesText(rows) ==
    IF rows = << >> THEN << >>
    ELSE << "\nTable: ", Head(rows).table_name, "\n", "Columns: " >>
         \o JoinComma(Head(rows).columns) \o << "\n" >> \o TablesText(Tail(rows))

\* NLPToSQL.get_table_schema on what db.execute_query returned; the text is
\* kept as the sequence of the pieces it is concatenated from.
get_table_schema(results) ==
    IF results.kind = "none" \/ results.rows = << >> THEN << >>
    ELSE << "Database Schema:\n" >> \o TablesText(results.rows)

(***************************************************************************)
(* Relevance ranking                                                       *)
(***************************************************************************)
\* NLPToSQL.calculate_similarity: the score as the fraction << num, den >>
calculate_similarity(query, example) ==
    LET query_words == WordSet(Lower(query))
        example_words == WordSet(Lower(example.natural_query))
    IN  IF query_words = {} \/ example_words = {} THEN << 0, 1 >>
        ELSE << Cardinality(query_words \cap example_words),
                Cardinality(query_words \cup example_words) >>

\* a > b and a >= b on fractions with positive denominators
ScoreGt(a, b) == a[1] * b[2] > b[1] * a[2]
ScoreGe(a, b) == a[1] * b[2] >= b[1] * a[2]

\* an ascending sort that is then reversed: equal scores come out in reverse
\* corpus order
RECURSIVE InsertDescTiesReversed(_, _)
InsertDescTiesReversed(x, sorted) ==
    IF sorted = << >> THEN << x >>
    ELSE IF ScoreGt(Head(sorted)[1], x[1])
         THEN << Head(sorted) >> \o InsertDescTiesReversed(x, Tail(sorted))
         ELSE << x >> \o sorted

\* list.sort(key=score, reverse=True) is stable: an element goes after every
\* element already placed whose score is at least its own.
RECURSIVE InsertDesc(_, _)
InsertDesc(x, sorted) ==
    IF sorted = << >> THEN << x >>
    ELSE IF ScoreGe(Head(sorted)[1], x[1])
         THEN << Head(sorted) >> \o InsertDesc(x, Tail(sorted))
         ELSE << x >> \o sorted

RECURSIVE SortDesc(_)
SortDesc(scored) ==
    IF scored = << >> THEN << >>
    ELSE InsertDesc(scored[Len(scored)], SortDesc(SubSeq(scored, 1, Len(scored) - 1)))

\* seq[:n]
SliceTo(seq, n) ==
    IF n >= 0 THEN SubSeq(seq, 1, IF n < Len(seq) THEN n ELSE Len(seq))
    ELSE SubSeq(seq, 1, IF Len(seq) + n > 0 THEN Len(seq) + n ELSE 0)

RECURSIVE PositiveExamples(_)
PositiveExamples(scored) ==
    IF scored = << >> THEN << >>
    ELSE (IF Head(scored)[1][1] > 0 THEN << Head(scored)[2] >> ELSE << >>)
         \o PositiveExamples(Tail(scored))

\* NLPToSQL.get_relevant_examples
get_relevant_examples(query, corpus, limit) ==
    LET scored_examples ==
            [i \in 1..Len(corpus) |-> << calculate_similarity(query, corpus[i]), corpus[i] >>]
    IN  PositiveExamples(SliceTo(SortDesc(scored_examples), limit))

(***************************************************************************)
(* Post-processing of the provider's response                              *)
(***************************************************************************)
\* The backtick character, which a TLA+ string cannot hold.
BT == "<backtick>"

FENCE == << BT, BT, BT >>
FENCE_SQL == << BT, BT, BT, "s", "q", "l" >>

\* generate_sql, lines 240-241: the text handed to sqlparse.format
PostProcess(resp) == Strip(Remove(Remove(Strip(resp), FENCE_SQL), FENCE))

\* generate_sql testing `response is None` where the code tests `not response`
TranslateResultNoneOnly(resp) ==
    IF resp = None THEN None ELSE SqlFormat(PostProcess(resp))

\* generate_sql, lines 236-246, on what generate returned: the returned value
TranslateResult(resp) ==
    IF ~Truthy(resp) THEN None ELSE SqlFormat(PostProcess(resp))

(***************************************************************************)
(* The environment of the pipeline: configuration values, corpus files,    *)
(* questions, and what the Database and the provider answer.               *)
(***************************************************************************)
\* Config.LLM_PROVIDER: os.getenv("LLM_PROVIDER", "ollama"), always a str
ProviderConfigs ==
    { << "o", "l", "l", "a", "m", "a" >>,
      OPENROUTER,
      << "O", "p", "e", "n", "R", "o", "u", "t", "e", "r" >>,
      << "o", "p", "e", "n", "r", "o", "u", "t", "e", "r", " " >>,
      << >> }

\* Config.OPENROUTER_API_KEY: os.getenv("OPENROUTER_API_KEY"), None when unset
ApiKeys == { None, << >>, << "k" >> }

\* What open(file_path).read() gives: the file's text, or an error.
GIST_ONE == << "-", " ", "a", NL, "a", "s", " ", "a" >>
GIST_TWO == << "a", " ", "c", NL, "s", "q", "l", NL, NL, "c", NL, "a", "s", " ", "c", NL >>
GIST_NO_SQL == << "a", " ", "c" >>
ReadOutcomes == { ReadError, << >>, GIST_ONE, GIST_TWO, GIST_NO_SQL }

Questions == { << >>, << "A", " ", "c" >>, << "q" >> }

\* What db.execute_query gives: None, no rows, or rows.
DbOutcomes ==
    { [kind |-> "none", rows |-> << >>],
      [kind |-> "rows", rows |-> << >>],
      [kind |-> "rows",
       rows |-> << [table_name |-> "users", columns |-> << "id int", "name text" >>] >>] }

\* What llm_provider.generate gives: None, or the backend's text.
Responses ==
    { None,
      << >>,
      << " " >>,
      << NL, " " >>,
      << "a", "s", " ", "a" >>,
      << BT, BT, BT, "s", "q", "l", NL, "a", "s", " ", "a", NL, BT, BT, BT >>,
      << BT, BT, BT, NL, BT, BT, BT >> }

DEFAULT_MAX_EXAMPLES == 3

(***************************************************************************)
(* The pipeline                                                            *)
(***************************************************************************)
Init ==
    /\ pc = "new"
    /\ LLM_PROVIDER \in ProviderConfigs
    /\ OPENROUTER_API_KEY \in ApiKeys
    /\ llm_provider = "unbound"
    /\ examples = << >>
    /\ natural_query = << >>
    /\ max_examples = DEFAULT_MAX_EXAMPLES
    /\ relevant_examples = << >>
    /\ schema = << >>
    /\ calls = << >>
    /\ content = None
    /\ response = None
    /\ sql = None
    /\ result = None
    /\ lastOp = "none"
    /\ prevExamples = << >>
    /\ shape = << >>
    /\ CliIdle

\* NLPToSQL.__init__
Construct ==
    /\ pc = "new"
    /\ LET p == initialize_provider(LLM_PROVIDER, OPENROUTER_API_KEY)
       IN  /\ llm_provider' = IF p = "ValueError" THEN "unbound" ELSE p
           /\ result' = IF p = "ValueError" THEN Raised ELSE None
    /\ examples' = << >>
    /\ prevExamples' = examples
    /\ lastOp' = "construct"
    /\ pc' = "idle"
    /\ UNCHANGED << LLM_PROVIDER, OPENROUTER_API_KEY, natural_query, max_examples,
                    relevant_examples, schema, calls, content, response, sql, shape >>
    /\ UNCHANGED cliVars

\* load_examples emptying the corpus before it reads
LoadedExamplesClearsFirst(old, text) ==
    IF text = ReadError THEN << >> ELSE from_gist(text)

\* load_examples adding the parsed examples to the corpus it holds
LoadedExamplesMerges(old, text) ==
    IF text = ReadError THEN old ELSE old \o from_gist(text)

\* NLPToSQL.load_examples: self.examples after read gave `text`
LoadedExamples(old, text) ==
    IF text = ReadError THEN old ELSE from_gist(text)

\* NLPToSQL.load_examples: the returned value after read gave `text`
LoadReturn(text) ==
    IF text = ReadError THEN PyFalse ELSE PyBool(Len(from_gist(text)) > 0)

\* NLPToSQL.load_examples
LoadExamples ==
    /\ pc = "idle"
    /\ \E text \in ReadOutcomes :
          /\ content' = text
          /\ examples' = LoadedExamples(examples, text)
          /\ result' = LoadReturn(text)
    /\ prevExamples' = examples
    /\ lastOp' = "load"
    /\ UNCHANGED << pc, LLM_PROVIDER, OPENROUTER_API_KEY, llm_provider, natural_query,
                    max_examples, relevant_examples, schema, calls, response, sql, shape >>
    /\ UNCHANGED cliVars

\* NLPToSQL.generate_sql, lines 208-233: the schema query on the Database, the
\* ranking of the corpus and the assembly of the prompt from schema,
\* relevant_examples and natural_query.
TranslateBegin ==
    /\ pc = "idle"
    /\ \E q \in Questions, results \in DbOutcomes :
          /\ natural_query' = q
          /\ schema' = get_table_schema(results)
          /\ relevant_examples' = get_relevant_examples(q, examples, max_examples)
    /\ calls' = << "execute_query" >>
    /\ prevExamples' = examples
    /\ pc' = "generating"
    /\ UNCHANGED << LLM_PROVIDER, OPENROUTER_API_KEY, llm_provider, examples, max_examples,
                    content, response, sql, result, lastOp, shape >>
    /\ UNCHANGED cliVars

\* generate_sql calling generate a second time when the first call failed
TranslateGenerateRetries ==
    /\ pc = "generating"
    /\ \E first \in Responses, resp \in Responses :
          /\ response' = IF Truthy(first) THEN first ELSE resp
          /\ sql' = IF Truthy(response') THEN PostProcess(response') ELSE None
          /\ result' = TranslateResult(response')
          /\ calls' = IF Truthy(first) THEN Append(calls, "generate")
                      ELSE calls \o << "generate", "generate" >>
    /\ lastOp' = "translate"
    /\ pc' = "idle"
    /\ UNCHANGED << LLM_PROVIDER, OPENROUTER_API_KEY, llm_provider, examples, natural_query,
                    max_examples, relevant_examples, schema, content, prevExamples, shape >>
    /\ UNCHANGED cliVars

\* generate_sql rebinding the local provider when the hosted one failed
TranslateGenerateFallsBack ==
    /\ pc = "generating"
    /\ \E resp \in Responses :
          /\ response' = resp
          /\ sql' = IF Truthy(resp) THEN PostProcess(resp) ELSE None
          /\ result' = TranslateResult(resp)
          /\ llm_provider' = IF resp = None THEN OllamaProvider ELSE llm_provider
    /\ calls' = Append(calls, "generate")
    /\ lastOp' = "translate"
    /\ pc' = "idle"
    /\ UNCHANGED << LLM_PROVIDER, OPENROUTER_API_KEY, examples, natural_query,
                    max_examples, relevant_examples, schema, content, prevExamples, shape >>
    /\ UNCHANGED cliVars

\* NLPToSQL.generate_sql, lines 235-250: the one generate call on the bound
\* provider, the post-processing of what it gave, and the return.
TranslateGenerate ==
    /\ pc = "generating"
    /\ \E resp \in Responses :
          /\ response' = resp
          /\ sql' = IF Truthy(resp) THEN PostProcess(resp) ELSE None
          /\ result' = TranslateResult(resp)
    /\ calls' = Append(calls, "generate")
    /\ lastOp' = "translate"
    /\ pc' = "idle"
    /\ UNCHANGED << LLM_PROVIDER, OPENROUTER_API_KEY, llm_provider, examples, natural_query,
                    max_examples, relevant_examples, schema, content, prevExamples, shape >>
    /\ UNCHANGED cliVars

Next ==
    \/ Construct
    \/ LoadExamples
    \/ TranslateBegin
    \/ TranslateGenerate

Spec == Init /\ [][Next]_vars

(***************************************************************************)
(* get_relevant_examples as a function of its inputs                       *)
(***************************************************************************)
MaxCorpus == 3
MaxQueryLen == 3
MaxLimit == 3

\* every str over `alphabet` of length at most n
StringsUpTo(alphabet, n) == UNION { [1..k -> alphabet] : k \in 0..n }

\* Examples as from_gist builds them.
ExamplePool ==
    { QueryExample(<< "a" >>, << "s", "q", "l" >>),
      QueryExample(<< "c" >>, << "s", "q", "l" >>),
      QueryExample(<< "A", " ", "c", " ", "b" >>, << "a", "s" >>) }

QueryAlphabet == { "a", "C", " " }

InitRank ==
    /\ pc = "rank"
    /\ examples \in UNION { [1..k -> ExamplePool] : k \in 0..MaxCorpus }
    /\ natural_query \in StringsUpTo(QueryAlphabet, MaxQueryLen)
    /\ max_examples \in 0..MaxLimit
    /\ LLM_PROVIDER = << >>
    /\ OPENROUTER_API_KEY = None
    /\ llm_provider = "ollama"
    /\ relevant_examples = << >>
    /\ schema = << >>
    /\ calls = << >>
    /\ content = None
    /\ response = None
    /\ sql = None
    /\ result = None
    /\ lastOp = "none"
    /\ prevExamples = << >>
    /\ shape = << >>
    /\ CliIdle

\* One call of get_relevant_examples(query, max_examples).
Rank ==
    /\ pc = "rank"
    /\ relevant_examples' = get_relevant_examples(natural_query, examples, max_examples)
    /\ pc' = "ranked"
    /\ lastOp' = "rank"
    /\ UNCHANGED << LLM_PROVIDER, OPENROUTER_API_KEY, llm_provider, examples, natural_query,
                    max_examples, schema, calls, content, response, sql, result,
                    prevExamples, shape >>
    /\ UNCHANGED cliVars

NextRank == Rank

SpecRank == InitRank /\ [][NextRank]_vars

(***************************************************************************)
(* from_gist as a function of the corpus text                              *)
(***************************************************************************)
MaxTextLen == 6
MaxBlocks == 2

GistAlphabet == { "a", "s", "-", " ", NL }

BlockPool ==
    { << "a", NL, "a", "s" >>,
      << "-", " ", "s", NL, "s", "q", "l", NL, " ", "a" >>,
      << "a", " ", "s" >>,
      << "-", "-", NL, "a", "s" >>,
      << " ", "a", " ", NL, "s", "q", "l", " " >> }

SepPool == { << NL, NL >>, << NL, " ", NL >>, << NL, NL, " ", NL >> }

RECURSIVE JoinWith(_, _)
JoinWith(pieces, sep) ==
    IF pieces = << >> THEN << >>
    ELSE IF Len(pieces) = 1 THEN pieces[1]
    ELSE pieces[1] \o sep \o JoinWith(Tail(pieces), sep)

\* Corpus texts written as blocks with blank lines between them.
BlockTexts ==
    { JoinWith(bs, sep) \o tail :
        bs \in UNION { [1..k -> BlockPool] : k \in 1..MaxBlocks },
        sep \in SepPool,
        tail \in { << >>, << NL >> } }

InitParse ==
    /\ pc = "parse"
    /\ content \in StringsUpTo(GistAlphabet, MaxTextLen) \cup BlockTexts
    /\ examples = << >>
    /\ natural_query = << >>
    /\ max_examples = DEFAULT_MAX_EXAMPLES
    /\ LLM_PROVIDER = << >>
    /\ OPENROUTER_API_KEY = None
    /\ llm_provider = "ollama"
    /\ relevant_examples = << >>
    /\ schema = << >>
    /\ calls = << >>
    /\ response = None
    /\ sql = None
    /\ result = None
    /\ lastOp = "none"
    /\ prevExamples = << >>
    /\ shape = << >>
    /\ CliIdle

\* One call of QueryExample.from_gist(content).
Parse ==
    /\ pc = "parse"
    /\ result' = from_gist(content)
    /\ pc' = "parsed"
    /\ lastOp' = "parse"
    /\ UNCHANGED << LLM_PROVIDER, OPENROUTER_API_KEY, llm_provider, examples, natural_query,
                    max_examples, relevant_examples, schema, calls, content, response, sql,
                    prevExamples, shape >>
    /\ UNCHANGED cliVars

NextParse == Parse

SpecParse == InitParse /\ [][NextParse]_vars

(***************************************************************************)
(* The post-processing of generate_sql on fenced responses                 *)
(***************************************************************************)
MaxBodyLen == 5

SqlAlphabet == { BT, "s", "q", "l", " " }

\* SQL texts: no whitespace at either end, and no backtick at either end.
Bodies ==
    { b \in StringsUpTo(SqlAlphabet, MaxBodyLen) :
        /\ b # << >>
        /\ b[1] \notin { BT, " " }
        /\ b[Len(b)] \notin { BT, " " } }

\* A response: whitespace, an opening marker, whitespace, the SQL, whitespace,
\* the closing marker, whitespace.
FencedShapes ==
    [ pre : { << >>, << " " >> },
      opener : { FENCE, FENCE_SQL },
      mid : { << >>, << NL >> },
      body : Bodies,
      post : { << >>, << NL >> },
      trail : { << >>, << NL >> } ]

Fenced(sh) == sh.pre \o sh.opener \o sh.mid \o sh.body \o sh.post \o FENCE \o sh.trail

InitPost ==
    /\ pc = "post"
    /\ shape \in FencedShapes
    /\ response = Fenced(shape)
    /\ examples = << >>
    /\ natural_query = << >>
    /\ max_examples = DEFAULT_MAX_EXAMPLES
    /\ LLM_PROVIDER = << >>
    /\ OPENROUTER_API_KEY = None
    /\ llm_provider = "ollama"
    /\ relevant_examples = << >>
    /\ schema = << >>
    /\ calls = << >>
    /\ content = None
    /\ sql = None
    /\ result = None
    /\ lastOp = "none"
    /\ prevExamples = << >>
    /\ CliIdle

\* generate_sql from the provider's return on: lines 237-246.
Post ==
    /\ pc = "post"
    /\ sql' = IF Truthy(response) THEN PostProcess(response) ELSE None
    /\ result' = TranslateResult(response)
    /\ pc' = "posted"
    /\ lastOp' = "translate"
    /\ UNCHANGED << LLM_PROVIDER, OPENROUTER_API_KEY, llm_provider, examples, natural_query,
                    max_examples, relevant_examples, schema, calls, content, response,
                    prevExamples, shape >>
    /\ UNCHANGED cliVars

NextPost == Post

SpecPost == InitPost /\ [][NextPost]_vars

(***************************************************************************)
(* Properties                                                              *)
(***************************************************************************)

\* C1: a translate call whose provider returned None or the empty string
\* returns None, whatever the question, the loaded corpus and the Database
\* outcome were.
C1_FailureOrEmptyGivesNone ==
    (lastOp = "translate" /\ response \in { None, << >> }) => result = None

C1_Witness ==
    /\ lastOp = "translate"
    /\ pc = "idle"
    /\ response = << >>
    /\ result = None
    /\ natural_query # << >>
    /\ examples # << >>
    /\ schema # << >>

\* C2: a translate call whose provider returned the empty string or only
\* whitespace returns None, as after a provider failure.
C2_BlankResponseGivesNone ==
    (lastOp = "translate" /\ response # None /\ Strip(response) = << >>) => result = None

\* the same, for the empty string alone (what line 237 tests)
C2_EmptyResponseGivesNone ==
    (lastOp = "translate" /\ response = << >>) => result = None

\* Case-insensitive equality of two strs, by their upper-cased forms.
SameIgnoringCase(a, b) == Upper(a) = Upper(b)

\* C3: construction never raises and binds the hosted provider exactly when
\* the configuration value is "openrouter" in any letter case and the API key
\* is a non-empty string; otherwise it binds the local provider.
C3_ProviderSelection ==
    /\ lastOp = "construct" => result # Raised
    /\ pc # "new" =>
          llm_provider =
              IF /\ SameIgnoringCase(LLM_PROVIDER, OPENROUTER)
                 /\ OPENROUTER_API_KEY # None
                 /\ Len(OPENROUTER_API_KEY) > 0
              THEN "openrouter"
              ELSE "ollama"

\* the hosted backend was asked for in mixed case with an empty key, and the
\* local backend is bound
C3_Witness ==
    /\ lastOp = "construct"
    /\ LLM_PROVIDER # OPENROUTER
    /\ SameIgnoringCase(LLM_PROVIDER, OPENROUTER)
    /\ OPENROUTER_API_KEY = << >>
    /\ llm_provider = "ollama"
    /\ result = None

\* C4: a load that hits a read error returns False, raises nothing and
\* leaves the corpus as it was before the call.
C4_ReadErrorKeepsCorpus ==
    (lastOp = "load" /\ content = ReadError) =>
        /\ result = PyFalse
        /\ examples = prevExamples

C4_Witness ==
    /\ lastOp = "load"
    /\ content = ReadError
    /\ result = PyFalse
    /\ Len(prevExamples) = 2
    /\ examples = prevExamples

\* C5: after a load whose read succeeded the corpus is exactly what the file
\* parses to, and load returned True exactly when that is non-empty.
C5_LoadReplacesCorpus ==
    (lastOp = "load" /\ content # ReadError) =>
        /\ examples = from_gist(content)
        /\ result = PyBool(from_gist(content) # << >>)

\* a corpus of two examples was replaced by a file that parses to none
C5_Witness ==
    /\ lastOp = "load"
    /\ content = GIST_NO_SQL
    /\ Len(prevExamples) = 2
    /\ examples = << >>
    /\ result = PyFalse

\* C8: within a translate call the external calls are one schema query on the
\* Database and then one generate on the provider, never more; a provider
\* failure ends the call with None.
C8_OneQueryThenOneGenerate ==
    /\ pc = "generating" => calls = << "execute_query" >>
    /\ (pc = "idle" /\ lastOp = "translate") =>
          /\ calls = << "execute_query", "generate" >>
          /\ response = None => result = None

\* a translate call ended after the Database gave None and the provider failed
C8_Witness ==
    /\ pc = "idle"
    /\ lastOp = "translate"
    /\ schema = << >>
    /\ response = None
    /\ result = None
    /\ calls = << "execute_query", "generate" >>

\* C10: no step after construction changes the provider binding; no step of a
\* translate call changes the corpus; a step that changes the corpus is a load.
C10_BindingAndCorpusFrame ==
    [][ /\ pc # "new" => llm_provider' = llm_provider
        /\ (pc = "generating" \/ pc' = "generating") => examples' = examples
        /\ examples' # examples => (pc = "idle" /\ pc' = "idle" /\ lastOp' = "load") ]_vars

\* a translate call failed on the hosted provider with a corpus loaded, and
\* both are still in place
C10_Witness ==
    /\ pc = "idle"
    /\ lastOp = "translate"
    /\ response = None
    /\ llm_provider = "openrouter"
    /\ Len(examples) = 2
    /\ examples = prevExamples

\* The words of a str, stated by position: the maximal runs of characters
\* that are not whitespace.
WordsOf(s) ==
    { SubSeq(s, p[1], p[2]) :
        p \in { q \in (1..Len(s)) \X (1..Len(s)) :
                  /\ q[1] <= q[2]
                  /\ \A k \in q[1]..q[2] : ~IsSpace(s[k])
                  /\ (q[1] = 1 \/ IsSpace(s[q[1] - 1]))
                  /\ (q[2] = Len(s) \/ IsSpace(s[q[2] + 1])) } }

\* The Jaccard score of two strs over their lower-cased word sets, as the
\* fraction << num, den >>; 0 when the sets share nothing.
Jaccard(a, b) ==
    LET wa == WordsOf(Lower(a))
        wb == WordsOf(Lower(b))
    IN  IF wa \cap wb = {} THEN << 0, 1 >>
        ELSE << Cardinality(wa \cap wb), Cardinality(wa \cup wb) >>

\* the Jaccard score of each corpus example against the question
RECURSIVE JaccardScores(_, _)
JaccardScores(query, corpus) ==
    IF corpus = << >> THEN << >>
    ELSE << Jaccard(query, Head(corpus).natural_query) >> \o JaccardScores(query, Tail(corpus))

\* The ranking the claim describes: the corpus positions of non-zero score,
\* by descending score and, among equal scores, ascending position, cut to
\* the first `limit`.
TopRanked(query, corpus, limit) ==
    LET score == JaccardScores(query, corpus)
        positive == { i \in 1..Len(corpus) : score[i][1] > 0 }
        before(i, j) ==
            \/ score[i][1] * score[j][2] > score[j][1] * score[i][2]
            \/ (score[i][1] * score[j][2] = score[j][1] * score[i][2] /\ i < j)
        place(i) == 1 + Cardinality({ j \in positive : before(j, i) })
        n == IF Cardinality(positive) < limit THEN Cardinality(positive) ELSE limit
    IN  [k \in 1..n |-> corpus[CHOOSE i \in positive : place(i) = k]]

\* the number of corpus examples that share a word with the question
PositiveCount ==
    Cardinality({ i \in 1..Len(examples) :
                    Jaccard(natural_query, examples[i].natural_query)[1] > 0 })

\* C6: the ranking is a sequence of corpus examples, at most max_examples
\* long, in descending Jaccard score with ties in corpus order, without any
\* example of score 0, and it is the top of the examples of non-zero score.
C6_RankIsTopPrefix ==
    pc = "ranked" =>
        /\ Len(relevant_examples) <= max_examples
        /\ relevant_examples = TopRanked(natural_query, examples, max_examples)

\* three examples of non-zero score, the first two tied, the third scoring
\* higher, and a limit of two: the third comes first, then the first
C6_Witness ==
    /\ pc = "ranked"
    /\ Len(examples) = 3
    /\ PositiveCount = 3
    /\ max_examples = 2
    /\ examples[1] # examples[2]
    /\ Jaccard(natural_query, examples[1].natural_query)
         = Jaccard(natural_query, examples[2].natural_query)
    /\ relevant_examples = << examples[3], examples[1] >>

\* no example shares a word with the question, and the ranking is empty
C6_WitnessNoOverlap ==
    /\ pc = "ranked"
    /\ Len(examples) = 3
    /\ max_examples = 3
    /\ natural_query # << >>
    /\ PositiveCount = 0
    /\ relevant_examples = << >>

\* The lines of a text: what lies between its newlines.
RECURSIVE LinesOf(_)
LinesOf(text) ==
    LET nl == IndexOf(text, NL, 1)
    IN  IF nl = 0 THEN << text >>
        ELSE << SubSeq(text, 1, nl - 1) >> \o LinesOf(SubSeq(text, nl + 1, Len(text)))

\* a blank line: empty or whitespace only
IsBlank(line) == \A i \in 1..Len(line) : IsSpace(line[i])

\* The blocks of a text: its maximal runs of lines that are not blank.
RECURSIVE GroupBlocks(_, _)
GroupBlocks(lines, cur) ==
    IF lines = << >> THEN (IF cur = << >> THEN << >> ELSE << cur >>)
    ELSE IF IsBlank(Head(lines))
         THEN (IF cur = << >> THEN << >> ELSE << cur >>) \o GroupBlocks(Tail(lines), << >>)
         ELSE GroupBlocks(Tail(lines), Append(cur, Head(lines)))

BlocksOf(text) == GroupBlocks(LinesOf(text), << >>)

\* the question of a block: its first line without bullet markers and
\* surrounding whitespace
QuestionOf(block) == Strip(StripChars(block[1], { "-", " " }))

\* the SQL of a block: the lines after the first, trimmed
RemainderOf(block) == Strip(JoinWith(Tail(block), << NL >>))

\* The examples a sequence of blocks stands for: one for each block with a
\* non-empty question and a non-empty remainder, in order.
RECURSIVE ExamplesOfBlocks(_)
ExamplesOfBlocks(blocks) ==
    IF blocks = << >> THEN << >>
    ELSE LET b == Head(blocks)
         IN  (IF Len(b) >= 2 /\ QuestionOf(b) # << >> /\ RemainderOf(b) # << >>
              THEN << [natural_query |-> QuestionOf(b),
                       sql_query |-> SqlFormat(RemainderOf(b))] >>
              ELSE << >>)
             \o ExamplesOfBlocks(Tail(blocks))

\* a text that is empty or starts with a block (its first line is not blank)
StartsWithBlock(text) == text = << >> \/ ~IsBlank(LinesOf(text)[1])

\* C7: from_gist raises nothing and returns, in block order, one example for
\* each block with a non-empty first line and a non-empty remainder, and none
\* for the other blocks, for every text made of blocks with blank lines
\* between them.
C7_ParseYieldsWellFormedBlocks ==
    (pc = "parsed" /\ StartsWithBlock(content)) =>
        result = ExamplesOfBlocks(BlocksOf(content))

\* two blocks, the first without SQL and the second well formed: one example,
\* that of the second block
C7_Witness ==
    /\ pc = "parsed"
    /\ StartsWithBlock(content)
    /\ Len(BlocksOf(content)) = 2
    /\ Len(BlocksOf(content)[1]) = 1
    /\ Len(result) = 1
    /\ result[1].natural_query = QuestionOf(BlocksOf(content)[2])

\* two well-formed blocks: two different examples, in block order
C7_WitnessTwo ==
    /\ pc = "parsed"
    /\ Len(BlocksOf(content)) = 2
    /\ Len(result) = 2
    /\ result[1] # result[2]
    /\ result[1].natural_query = QuestionOf(BlocksOf(content)[1])

\* The response is fenced without ambiguity: a bare opening marker is not
\* directly followed by the letters that would make it the sql marker.
OpenerIsPlain(sh) ==
    ~ ( /\ sh.opener = FENCE
        /\ sh.mid = << >>
        /\ Len(sh.body) >= 3
        /\ SubSeq(sh.body, 1, 3) = << "s", "q", "l" >> )

\* C9: for a response that is SQL text between an opening fence marker and a
\* closing one, the text handed to the formatter is exactly that SQL text.
C9_FencedResponseGivesBareSql ==
    (pc = "posted" /\ OpenerIsPlain(shape)) => sql = shape.body

\* the same, for SQL text that holds no run of three backticks
C9_FencedResponseWithoutInnerFence ==
    ( /\ pc = "posted"
      /\ OpenerIsPlain(shape)
      /\ \A i \in 1..Len(shape.body) - 2 : SubSeq(shape.body, i, i + 2) # FENCE )
    => sql = shape.body

(***************************************************************************)
(* CLI.process_natural_query and its thinking-animation thread             *)
(* (src/src/cli.py), called from the loop of interactive_mode.             *)
(* pc is the main thread's position: "prompt" (in interactive_mode,        *)
(* outside process_natural_query), "cli_generating" (line 44, blocked in   *)
(* generate_sql), "joining" (line 47), "joining_except" (line 57).         *)
(***************************************************************************)
MaxQueries == 3

KeyboardInterrupt == << "<KeyboardInterrupt>" >>

\* the animation threads that have not ended
Alive == { t \in 1..Len(threads) : threads[t] = "running" }

\* The state after CLI.__init__: a provider bound, a corpus loaded or not.
InitCLI ==
    /\ pc = "prompt"
    /\ llm_provider \in { OllamaProvider, "openrouter" }
    /\ examples \in { << >>, from_gist(GIST_ONE), from_gist(GIST_TWO) }
    /\ CliIdle
    /\ LLM_PROVIDER = << >>
    /\ OPENROUTER_API_KEY = None
    /\ natural_query = << >>
    /\ max_examples = DEFAULT_MAX_EXAMPLES
    /\ relevant_examples = << >>
    /\ schema = << >>
    /\ calls = << >>
    /\ content = None
    /\ response = None
    /\ sql = None
    /\ result = None
    /\ lastOp = "none"
    /\ prevExamples = << >>
    /\ shape = << >>

\* process_natural_query, lines 39-42: the flag is cleared and a new
\* animation thread is started.
StartQuery ==
    /\ pc = "prompt"
    /\ Len(threads) < MaxQueries
    /\ stop_animation' = FALSE
    /\ threads' = Append(threads, "running")
    /\ animation_thread' = Len(threads) + 1
    /\ pc' = "cli_generating"
    /\ UNCHANGED << LLM_PROVIDER, OPENROUTER_API_KEY, llm_provider, examples, natural_query,
                    max_examples, relevant_examples, schema, calls, content, response, sql,
                    result, lastOp, prevExamples, shape, interrupted >>

\* lines 44-46: generate_sql returns (SQL text, '' or None) and the flag is set.
GenerateReturns ==
    /\ pc = "cli_generating"
    /\ \E resp \in Responses :
          /\ response' = resp
          /\ sql' = IF Truthy(resp) THEN PostProcess(resp) ELSE None
          /\ result' = TranslateResult(resp)
    /\ stop_animation' = TRUE
    /\ pc' = "joining"
    /\ UNCHANGED << LLM_PROVIDER, OPENROUTER_API_KEY, llm_provider, examples, natural_query,
                    max_examples, relevant_examples, schema, calls, content, lastOp,
                    prevExamples, shape, threads, animation_thread, interrupted >>

\* lines 44, 55-56: generate_sql raises an Exception (db.execute_query raising
\* in get_table_schema, outside generate_sql's try) and the handler sets the flag.
GenerateRaises ==
    /\ pc = "cli_generating"
    /\ result' = Raised
    /\ stop_animation' = TRUE
    /\ pc' = "joining_except"
    /\ UNCHANGED << LLM_PROVIDER, OPENROUTER_API_KEY, llm_provider, examples, natural_query,
                    max_examples, relevant_examples, schema, calls, content, response, sql,
                    lastOp, prevExamples, shape, threads, animation_thread, interrupted >>

\* line 44 with Ctrl-C: KeyboardInterrupt is no Exception, so the handler of
\* line 55 does not run; it leaves process_natural_query and is caught in
\* interactive_mode (lines 165-166), which goes on with the next prompt.
GenerateInterrupted ==
    /\ pc = "cli_generating"
    /\ result' = KeyboardInterrupt
    /\ interrupted' = TRUE
    /\ lastOp' = "process_natural_query"
    /\ pc' = "prompt"
    /\ UNCHANGED << LLM_PROVIDER, OPENROUTER_API_KEY, llm_provider, examples, natural_query,
                    max_examples, relevant_examples, schema, calls, content, response, sql,
                    prevExamples, shape, stop_animation, threads, animation_thread >>

\* lines 47-54: join returns once the thread has ended; the SQL is shown and
\* returned if the user confirms, None otherwise.
JoinReturns ==
    /\ pc = "joining"
    /\ threads[animation_thread] = "terminated"
    /\ \E confirm \in BOOLEAN :
          result' = IF Truthy(result) /\ confirm THEN result ELSE None
    /\ lastOp' = "process_natural_query"
    /\ pc' = "prompt"
    /\ UNCHANGED << LLM_PROVIDER, OPENROUTER_API_KEY, llm_provider, examples, natural_query,
                    max_examples, relevant_examples, schema, calls, content, response, sql,
                    prevExamples, shape, cliVars >>

\* lines 57-59: join returns in the handler, which returns None.
JoinExceptReturns ==
    /\ pc = "joining_except"
    /\ threads[animation_thread] = "terminated"
    /\ result' = None
    /\ lastOp' = "process_natural_query"
    /\ pc' = "prompt"
    /\ UNCHANGED << LLM_PROVIDER, OPENROUTER_API_KEY, llm_provider, examples, natural_query,
                    max_examples, relevant_examples, schema, calls, content, response, sql,
                    prevExamples, shape, cliVars >>

\* _show_thinking_animation, lines 63-65: thread t reads the flag set and
\* leaves its loop (while the flag is clear it sleeps and changes nothing).
AnimationExits(t) ==
    /\ threads[t] = "running"
    /\ stop_animation = TRUE
    /\ threads' = [threads EXCEPT ![t] = "terminated"]
    /\ UNCHANGED << pc, LLM_PROVIDER, OPENROUTER_API_KEY, llm_provider, examples,
                    natural_query, max_examples, relevant_examples, schema, calls, content,
                    response, sql, result, lastOp, prevExamples, shape, stop_animation,
                    animation_thread, interrupted >>

NextCLI ==
    \/ StartQuery
    \/ GenerateReturns
    \/ GenerateRaises
    \/ GenerateInterrupted
    \/ JoinReturns
    \/ JoinExceptReturns
    \/ \E t \in 1..Len(threads) : AnimationExits(t)

SpecCLI == InitCLI /\ [][NextCLI]_vars

\* C11: whenever control is outside process_natural_query after a query, the
\* stop flag is set and every animation thread has ended, so that at most one
\* animation thread is alive at any time; and a step of an animation thread
\* changes neither the flag nor the pipeline's provider and corpus.
C11_AnimationStoppedOnExit ==
    /\ (pc = "prompt" /\ threads # << >>) => (stop_animation /\ Alive = {})
    /\ Cardinality(Alive) <= 1

\* the same, as long as no KeyboardInterrupt has left process_natural_query
C11_StoppedUnlessInterrupted ==
    ~interrupted => C11_AnimationStoppedOnExit

\* a step that ends an animation thread writes nothing but that thread's state
C11_AnimationOnlyReads ==
    [][ threads' # threads /\ Len(threads') = Len(threads) =>
            UNCHANGED << stop_animation, llm_provider, examples, pc, result >> ]_vars
====
